---- MODULE Spec2Model ----
(***************************************************************************)
(* A model of the kaos chaos-testing harness (vertexclique/kaos):          *)
(* src/lib.rs (Runs::available, Runs::chaotic, Drop for Runs) and          *)
(* src/run.rs (Runner::run, Runner::prepare, Test::run,                    *)
(* Test::check_available, expand_globs, ExpandedTest::run, filter).        *)
(*                                                                         *)
(* Paths, arguments and binary names are sequences of character codes.     *)
(* Durations and elapsed times are whole milliseconds.  Option<T> is a     *)
(* sequence of length at most one: None == <<>>, Some(x) == <<x>>.         *)
(* Rust vectors are 0-based, TLA+ sequences 1-based: v[i] is v[i + 1].     *)
(***************************************************************************)
EXTENDS Integers, Sequences, FiniteSets, TLC

\* ------------------------------------------------------------------ bounds
\* Number of Runs::available / Runs::chaotic calls a launcher makes.
MaxCalls == 2
\* Largest run_count handed to Runs::chaotic.
MaxRunCount == 2
\* Number of successful cases a proptest TestRunner asks for before it
\* reports success (Config::default().cases; 256 in the library).
Cases == 2
\* Width of usize / isize in bits (64 on the usual targets; the cast
\* `max_surge as isize` only depends on the top bit).
WordBits == 4

UsizeMax == 2 ^ WordBits - 1

\* ------------------------------------------------------- character codes
Star == 42
\* "kaos=" (run.rs:428)
PREFIX == <<107, 97, 111, 115, 61>>
FileA == <<97>>
FileB == <<98>>
FileC == <<99>>

\* --------------------------------------------------------- input domains
\* Paths a launcher declares: a file, a pattern, a malformed pattern.
PathChoices == {FileB, <<Star>>, <<Star, Star, Star>>}
DurationChoices == {1, 2}
SurgeChoices == {0, 3, UsizeMax}
\* The environments of a run: the files that exist, the process arguments
\* and CARGO_PKG_NAME.
Envs ==
    {[fs |-> {FileA, FileB}, args |-> <<>>, crate |-> "app"],
     [fs |-> {FileA}, args |-> <<>>, crate |-> "kaos"],
     [fs |-> {FileA, FileB}, args |-> <<PREFIX \o FileA>>, crate |-> "kaos"],
     [fs |-> {FileA, FileB},
      args |-> <<PREFIX, PREFIX \o FileC, PREFIX \o FileB>>,
      crate |-> "app"]}
\* Milliseconds a build and a run of the target take.
BuildTimes == {0, 1}
RunTimes == {0, 2}
\* How cargo build and the target process end.
ExitChoices == {"fail", "ok"}

\* ------------------------------------------------------------------ types
None == <<>>
Some(x) == <<x>>

\* !0 as isize (lib.rs:193, run.rs:95, run.rs:228)
NOT0 == -1

\* `max_surge as isize` (lib.rs:203): two's complement reinterpretation.
AsIsize(u) == IF u >= 2 ^ (WordBits - 1) THEN u - 2 ^ WordBits ELSE u

VARIABLES
    tests,      \* Runner.tests: the declared Test values
    args,       \* env::args_os() of the process
    fs,         \* the files that exist
    crate_name, \* env::var("CARGO_PKG_NAME")
    calls,      \* number of Runs::available / Runs::chaotic calls made
    pc,         \* where Runner::run stands
    plan,       \* the expanded and filtered Vec<ExpandedTest> of Runner::run
    project,    \* the Project that prepare returned
    idx,        \* number of entries the for loop of Runner::run has consumed
    failures,   \* the local `failures` of Runner::run
    search,     \* the proptest TestRunner and value tree of Test::run
    trial,      \* the most recent build/run/measure attempt
    report,     \* what the most recently finished entry returned
    errs,       \* number of entries whose run returned Err
    group,      \* attempts made for the current run of identical entries
    runners     \* number of TestRunner::default() constructions

vars == <<tests, args, fs, crate_name, calls, pc, plan, project, idx,
          failures, search, trial, report, errs, group, runners>>

\* ------------------------------------------------------------ lib.rs
\* Runs::available pushes one Test.
AvailableTest(path, duration) ==
    [path |-> path, duration |-> Some(duration), max_surge |-> NOT0,
     expected |-> "Available"]

\* Runs::chaotic pushes run_count copies of this Test.
ChaoticTest(path, max_surge) ==
    [path |-> path, duration |-> None, max_surge |-> AsIsize(max_surge),
     expected |-> "Chaotic"]

Repeat(x, n) == [i \in 1..n |-> x]

\* ------------------------------------------------------------ expand_globs
\* bin_name: format!("kaos{:03}", i), as the digits after "kaos".
bin_name(i) == <<(i \div 100) % 10, (i \div 10) % 10, i % 10>>

Contains(s, f) ==
    \E k \in 0..(Len(s) - Len(f)) : SubSeq(s, k + 1, k + Len(f)) = f

StartsWith(s, p) == Len(s) >= Len(p) /\ SubSeq(s, 1, Len(p)) = p

RECURSIVE GlobMatch(_, _)
\* glob pattern p against file name s; '*' matches any run of characters.
GlobMatch(p, s) ==
    IF p = <<>> THEN s = <<>>
    ELSE IF Head(p) = Star
         THEN GlobMatch(Tail(p), s) \/ (s # <<>> /\ GlobMatch(p, Tail(s)))
         ELSE s # <<>> /\ Head(s) = Head(p) /\ GlobMatch(Tail(p), Tail(s))

RECURSIVE LexLess(_, _)
\* Ord of paths: lexicographic.
LexLess(a, b) ==
    IF a = <<>> THEN b # <<>>
    ELSE IF b = <<>> THEN FALSE
    ELSE IF Head(a) = Head(b) THEN LexLess(Tail(a), Tail(b))
    ELSE Head(a) < Head(b)

RECURSIVE SortedSeq(_)
\* paths.sort()
SortedSeq(S) ==
    IF S = {} THEN <<>>
    ELSE LET m == CHOOSE x \in S : \A y \in S \ {x} : LexLess(x, y)
         IN <<m>> \o SortedSeq(S \ {m})

\* glob::glob rejects a pattern with three or more '*' in a row.
PatternError(pattern) == Contains(pattern, <<Star, Star, Star>>)

\* The inner fn glob without paths.sort(): the matches last to first.
glob_unsorted(pattern, files) ==
    LET found == SortedSeq({f \in files : GlobMatch(pattern, f)})
    IN IF PatternError(pattern) THEN [ok |-> FALSE, paths |-> <<>>]
       ELSE [ok |-> TRUE,
             paths |-> [i \in 1..Len(found) |-> found[Len(found) + 1 - i]]]

\* The inner fn glob: the sorted matches, or an error.
glob(pattern, files) ==
    IF PatternError(pattern) THEN [ok |-> FALSE, paths |-> <<>>]
    ELSE [ok |-> TRUE,
          paths |-> SortedSeq({f \in files : GlobMatch(pattern, f)})]

RECURSIVE ExpandInto(_, _, _, _)
\* The for loop of expand_globs from test k on; vec is the vector so far.
ExpandInto(ts, k, vec, files) ==
    IF k > Len(ts) THEN vec
    ELSE LET test == ts[k]
             g == glob(test.path, files)
             matched == [j \in 1..Len(g.paths) |->
                           [name |-> bin_name(Len(vec) + j - 1),
                            test |-> [test EXCEPT !.path = g.paths[j]],
                            error |-> None]]
             expanded == [name |-> bin_name(Len(vec)), test |-> test,
                          error |-> IF Contains(test.path, <<Star>>) /\ ~g.ok
                                    THEN Some("Glob") ELSE None]
         IN IF Contains(test.path, <<Star>>) /\ g.ok
            THEN ExpandInto(ts, k + 1, vec \o matched, files)
            ELSE ExpandInto(ts, k + 1, Append(vec, expanded), files)

expand_globs(ts, files) == ExpandInto(ts, 1, <<>>, files)

\* ------------------------------------------------------------------ filter
\* The filter strings without the test arg != PREFIX.
FiltersWithBare(argv) ==
    {SubSeq(argv[i], Len(PREFIX) + 1, Len(argv[i])) :
        i \in {j \in 1..Len(argv) : StartsWith(argv[j], PREFIX)}}

\* The filter strings: every argument "kaos=<f>" with a non-empty <f>.
Filters(argv) ==
    {SubSeq(argv[i], Len(PREFIX) + 1, Len(argv[i])) :
        i \in {j \in 1..Len(argv) :
                 StartsWith(argv[j], PREFIX) /\ argv[j] # PREFIX}}

\* filter handing back the retained entries last to first.
filter_reversed(ts, argv) ==
    LET kept == IF Filters(argv) = {} THEN ts
                ELSE SelectSeq(ts, LAMBDA t :
                        \E f \in Filters(argv) : Contains(t.test.path, f))
    IN [i \in 1..Len(kept) |-> kept[Len(kept) + 1 - i]]

filter(ts, argv) ==
    IF Filters(argv) = {} THEN ts
    ELSE SelectSeq(ts, LAMBDA t :
                         \E f \in Filters(argv) : Contains(t.test.path, f))

\* ------------------------------------------------------- Runner::prepare
\* surges.iter().position(|&e| e == !0), as a 1-based index or 0.
FirstFixed(surges) ==
    IF \E i \in 1..Len(surges) : surges[i] = NOT0
    THEN CHOOSE i \in 1..Len(surges) :
            surges[i] = NOT0 /\ \A j \in 1..(i - 1) : surges[j] # NOT0
    ELSE 0

static_durations(ts) ==
    LET surges == [i \in 1..Len(ts) |-> ts[i].test.max_surge]
    IN [i \in 1..Len(ts) |->
          IF i = FirstFixed(surges) THEN ts[i].test.duration ELSE None]

\* format!("{}-tests", crate_name)
ProjectName(crate) == IF crate = "kaos" THEN "kaos-tests" ELSE "app-tests"

prepare(ts, crate) ==
    [surges |-> [i \in 1..Len(ts) |-> ts[i].test.max_surge],
     test_idx |-> 0,
     durations |-> static_durations(ts),
     name |-> ProjectName(crate)]

\* --------------------------------------------------------- one attempt
check_exists(path) == path \in fs

\* check_available without the early return on a failed build.
check_available_unguarded(success, run) ==
    IF run = "spawn_err" THEN "Io"
    ELSE IF run = "ok" THEN "Ok"
    ELSE "RunFailed"

\* Test::check_available: the build's status decides whether the target
\* is run at all; the run's status decides the result.
check_available(success, run) ==
    IF ~success THEN "CargoFail"
    ELSE IF run = "spawn_err" THEN "Io"
    ELSE IF run = "ok" THEN "Ok"
    ELSE "RunFailed"

\* now.elapsed(): `now` is taken before cargo::build_test is called.
Elapsed(b, r, ran) == b + (IF ran THEN r ELSE 0)

\* if elapsed < duration { Err(availability is low) } else { res }
Judge(elapsed, duration, res) ==
    IF elapsed < duration THEN "AvailabilityLow" ELSE res

TrialInputs ==
    [build : ExitChoices, b : BuildTimes, run : ExitChoices, r : RunTimes]

NoTrial ==
    [name |-> <<>>, panic |-> FALSE, duration |-> 0, built |-> FALSE,
     success |-> FALSE, ran |-> FALSE, b |-> 0, r |-> 0, elapsed |-> 0,
     check |-> "None", res |-> "None"]

\* The body shared by both branches of Test::run (run.rs:232-268 and
\* run.rs:273-307) for one required duration; name is the binary that
\* cargo::build_test and cargo::run_test are asked for.
Attempt(path, name, duration, in) ==
    IF ~check_exists(path)
    THEN [NoTrial EXCEPT !.name = name, !.panic = TRUE,
                         !.duration = duration, !.res = "Panic"]
    ELSE IF in.build = "spawn_err"
    THEN [NoTrial EXCEPT !.name = name, !.panic = TRUE,
                         !.duration = duration, !.built = TRUE,
                         !.res = "Panic"]
    ELSE LET success == in.build = "ok"
             r == IF success THEN in.r ELSE 0
             elapsed == Elapsed(in.b, r, success)
         IN [name |-> name, panic |-> FALSE, duration |-> duration,
             built |-> TRUE,
             success |-> success, ran |-> success, b |-> in.b, r |-> r,
             elapsed |-> elapsed,
             check |-> check_available(success, in.run),
             res |-> Judge(elapsed, duration,
                           check_available(success, in.run))]

\* ------------------------------------------- proptest's integer shrinking
\* The value tree of the strategy 0..max_surge handed to runner.run
\* (run.rs:231): a binary search between lo and hi with the candidate curr.
new_clamped(lo, start, hi) ==
    [lo |-> IF start < 0 THEN (IF hi - 1 < 0 THEN hi - 1 ELSE 0)
            ELSE (IF lo > 0 THEN lo ELSE 0),
     curr |-> start, hi |-> start]

magnitude_greater(lhs, rhs) ==
    IF lhs = 0 THEN FALSE ELSE IF lhs < 0 THEN lhs < rhs ELSE lhs > rhs

reposition(t) ==
    LET new_mid == t.lo + ((t.hi - t.lo) \div 2)
    IN IF new_mid = t.curr THEN [moved |-> FALSE, tree |-> t]
       ELSE [moved |-> TRUE, tree |-> [t EXCEPT !.curr = new_mid]]

\* simplify stepping past the candidate that just failed.
simplify_past(t) ==
    IF ~magnitude_greater(t.hi, t.lo) THEN [moved |-> FALSE, tree |-> t]
    ELSE reposition([t EXCEPT !.hi = t.curr - 1])

simplify(t) ==
    IF ~magnitude_greater(t.hi, t.lo) THEN [moved |-> FALSE, tree |-> t]
    ELSE reposition([t EXCEPT !.hi = t.curr])

\* complicate without stepping past the candidate that just passed.
complicate_same(t) ==
    IF ~magnitude_greater(t.hi, t.lo) THEN [moved |-> FALSE, tree |-> t]
    ELSE reposition([t EXCEPT !.lo = t.curr])

complicate(t) ==
    IF ~magnitude_greater(t.hi, t.lo) THEN [moved |-> FALSE, tree |-> t]
    ELSE reposition([t EXCEPT !.lo = t.curr + (IF t.hi < 0 THEN -1 ELSE 1)])

NoSearch == [max_surge |-> 0, successes |-> 0, lo |-> 0, curr |-> 0, hi |-> 0]

Tree(s) == [lo |-> s.lo, curr |-> s.curr, hi |-> s.hi]

WithTree(s, t) == [s EXCEPT !.lo = t.lo, !.curr = t.curr, !.hi = t.hi]

\* --------------------------------------------------------- bookkeeping
\* branch: which arm handled the entry; required / max_surge: the duration
\* or the domain it was run with; res: what it returned; first: the first
\* failing sample; minimal: the value tree's value when runner.run ended;
\* drawn / top: how many samples were drawn and the largest of them;
\* bad: some sample's build failed, or its process did not exit cleanly,
\* or it ran shorter than the sample asked; lowfail: the least value the
\* closure failed for; anypass: the closure returned Ok for some value.
NoReport ==
    [done |-> FALSE, branch |-> "none", required |-> 0, max_surge |-> 0,
     res |-> "None", minimal |-> -1, first |-> -1, steady |-> -1,
     drawn |-> 0, top |-> -1, bad |-> FALSE, lowfail |-> -1,
     anypass |-> FALSE]

\* A runner that takes every call of the closure for a pass.
PassedAlways(t) == TRUE

\* What runner.run sees of one call of the closure: Ok(()) or a failure
\* (Err(TestCaseError::Fail) or a caught panic).
Passed(t) == t.res = "Ok"

\* The closure was called with v and came back as t.
Tried(rep, v, t) ==
    IF Passed(t) THEN [rep EXCEPT !.anypass = TRUE]
    ELSE [rep EXCEPT !.lowfail = IF rep.lowfail = -1 \/ v < rep.lowfail
                                 THEN v ELSE rep.lowfail]

\* One more sample v with attempt t.
Drawn(rep, v, t) ==
    [rep EXCEPT !.drawn = rep.drawn + 1,
                !.top = IF v > rep.top THEN v ELSE rep.top,
                !.bad = rep.bad \/ t.check # "Ok" \/ t.elapsed < v]

\* The result of runner.run dropped instead of propagated with `?`.
RunnerResultDropped(failed) == "Ok"

\* runner.run(..)?; Ok(res): the entry fails iff some case failed.
RunnerResult(failed) == IF failed THEN "TestFail" ELSE "Ok"

\* The attempts of one entry all built, ran and exited cleanly after the
\* same elapsed time S: steady = S.  No attempt yet: -1.  Otherwise: -2.
Steady(prev, t) ==
    IF t.check = "Ok" /\ prev \in {-1, t.elapsed} THEN t.elapsed ELSE -2

\* Entry i + 1 of the plan repeats entry i (two copies pushed by one
\* Runs::chaotic call are indistinguishable from two calls).
SameGroup(i) ==
    /\ i >= 1
    /\ i < Len(plan)
    /\ plan[i].test = plan[i + 1].test
    /\ plan[i].error = None
    /\ plan[i + 1].error = None

NoGroup == [execs |-> 0, clean |-> TRUE]

GroupAtEntry == IF SameGroup(idx) THEN group ELSE NoGroup

\* One more attempt in the group; counting stops at the first failure.
Counted(g, t) ==
    IF g.clean /\ t.res = "Ok" THEN [g EXCEPT !.execs = g.execs + 1]
    ELSE [execs |-> 0, clean |-> FALSE]

\* if let Err(err) = test.run(&mut project) { failures += 1; ... }
CountFailure(f, res) == IF res # "Ok" THEN f + 1 ELSE f

\* The final check without the self-test guard.
RaiseUnguarded(f, name) == f > 0

\* if failures > 0 && project.name != "kaos-tests" { panic!(...) }
Raise(f, name) == f > 0 /\ name # "kaos-tests"

\* The loop of Runner::run receives what the entry returned.
EntryReturns(res, rep) ==
    /\ failures' = CountFailure(failures, res)
    /\ errs' = errs + (IF res = "Ok" THEN 0 ELSE 1)
    /\ idx' = idx + 1
    /\ pc' = "loop"
    /\ report' = [rep EXCEPT !.done = TRUE, !.res = res]

\* ------------------------------------------------------------------ Init
Init ==
    /\ tests = <<>>
    /\ \E e \in Envs : args = e.args /\ fs = e.fs /\ crate_name = e.crate
    /\ calls = 0
    /\ pc = "declare"
    /\ plan = <<>>
    /\ project = [surges |-> <<>>, test_idx |-> 0, durations |-> <<>>,
                  name |-> ""]
    /\ idx = 0
    /\ failures = 0
    /\ search = NoSearch
    /\ trial = NoTrial
    /\ report = NoReport
    /\ errs = 0
    /\ group = NoGroup
    /\ runners = 0

\* --------------------------------------------------------------- actions
\* Runs::available(path, duration)
Available(path, duration) ==
    /\ pc = "declare"
    /\ calls < MaxCalls
    /\ calls' = calls + 1
    /\ tests' = Append(tests, AvailableTest(path, duration))
    /\ UNCHANGED <<args, fs, crate_name, pc, plan, project, idx, failures,
                   search, trial,
                   report, errs, group, runners>>

\* Runs::chaotic(path, run_count, max_surge)
Chaotic(path, run_count, max_surge) ==
    /\ pc = "declare"
    /\ calls < MaxCalls
    /\ calls' = calls + 1
    /\ tests' = tests \o Repeat(ChaoticTest(path, max_surge), run_count)
    /\ UNCHANGED <<args, fs, crate_name, pc, plan, project, idx, failures,
                   search, trial,
                   report, errs, group, runners>>

\* Runner::run going on to its loop whatever prepare returned.
AfterPrepareIgnored(prepared) == "loop"

\* self.prepare(&tests).unwrap_or_else(|err| { ...; panic!("tests failed") })
AfterPrepare(prepared) == IF prepared THEN "loop" ELSE "prepare_failed"

\* Drop for Runs calls Runner::run: expand_globs, filter, prepare.
RunnerRun(prepared) ==
    /\ pc = "declare"
    /\ plan' = filter(expand_globs(tests, fs), args)
    /\ pc' = AfterPrepare(prepared)
    /\ IF prepared
       THEN project' = prepare(plan', crate_name)
       ELSE UNCHANGED project
    /\ UNCHANGED <<tests, args, fs, crate_name, calls, idx, failures, search,
                   trial, report,
                   errs, group, runners>>

\* ExpandedTest::run of a placeholder: Err(error), nothing is built or run.
EntryError ==
    /\ pc = "loop"
    /\ idx < Len(plan)
    /\ plan[idx + 1].error # None
    /\ EntryReturns(plan[idx + 1].error[1],
                    [NoReport EXCEPT !.branch = "error"])
    /\ group' = NoGroup
    /\ UNCHANGED <<tests, args, fs, crate_name, calls, plan, project, search,
                   trial, runners>>

\* Test::run, the branch max_surge == !0 (run.rs:272-308).
TestRunFixed(in) ==
    /\ pc = "loop"
    /\ idx < Len(plan)
    /\ plan[idx + 1].error = None
    /\ project.surges[project.test_idx + 1] = NOT0
    /\ runners' = runners + 1
    /\ IF project.durations[project.test_idx + 1] = None
       THEN \* .unwrap() of None
            /\ pc' = "unwrap_none"
            /\ UNCHANGED <<idx, failures, trial, report, errs, group>>
       ELSE LET duration == project.durations[project.test_idx + 1][1]
                t == Attempt(plan[idx + 1].test.path, plan[idx + 1].name,
                             duration, in)
            IN /\ trial' = t
               /\ group' = Counted(GroupAtEntry, t)
               /\ IF t.panic
                  THEN \* check_exists(&self.path).unwrap() of Err
                       /\ pc' = "unwrap_open"
                       /\ UNCHANGED <<idx, failures, report, errs>>
                  ELSE EntryReturns(t.res,
                          [NoReport EXCEPT !.branch = "fixed",
                                           !.required = duration,
                                           !.steady = Steady(-1, t)])
    /\ UNCHANGED <<tests, args, fs, crate_name, calls, plan, project, search>>

\* Test::run, the branch max_surge != !0, up to the call of runner.run.
TestRunSearch ==
    /\ pc = "loop"
    /\ idx < Len(plan)
    /\ plan[idx + 1].error = None
    /\ project.surges[project.test_idx + 1] # NOT0
    /\ runners' = runners + 1
    /\ project' = [project EXCEPT !.test_idx = project.test_idx + 1]
    /\ LET max_surge == project.surges[project.test_idx + 1]
       IN IF max_surge <= 0
          THEN \* sampling the empty range 0..max_surge panics
               /\ pc' = "empty_range"
               /\ UNCHANGED <<search, report, group>>
          ELSE /\ pc' = "sampling"
               /\ search' = [NoSearch EXCEPT !.max_surge = max_surge]
               /\ report' = [NoReport EXCEPT !.branch = "search",
                                             !.max_surge = max_surge]
               /\ group' = GroupAtEntry
    /\ UNCHANGED <<tests, args, fs, crate_name, calls, plan, idx, failures,
                   trial, errs>>

\* One case of runner.run: draw v from 0..max_surge and call the closure.
Sample(v, in) ==
    /\ pc = "sampling"
    /\ v \in 0..(search.max_surge - 1)
    /\ LET t == Attempt(plan[idx + 1].test.path, plan[idx + 1].name, v, in)
           rep == Tried(Drawn([report EXCEPT
                                 !.steady = Steady(report.steady, t)],
                              v, t), v, t)
           tree == new_clamped(0, v, search.max_surge - 1)
           step == simplify(tree)
       IN /\ trial' = t
          /\ group' = Counted(group, t)
          /\ IF Passed(t)
             THEN IF search.successes + 1 >= Cases
                  THEN /\ EntryReturns(RunnerResult(FALSE), rep)
                       /\ search' = NoSearch
                  ELSE /\ search' = [search EXCEPT
                                       !.successes = search.successes + 1]
                       /\ report' = rep
                       /\ UNCHANGED <<pc, idx, failures, errs>>
             ELSE IF step.moved
                  THEN /\ pc' = "shrinking"
                       /\ search' = WithTree(search, step.tree)
                       /\ report' = [rep EXCEPT !.first = v]
                       /\ UNCHANGED <<idx, failures, errs>>
                  ELSE /\ EntryReturns(RunnerResult(TRUE),
                             [rep EXCEPT !.first = v,
                                         !.minimal = step.tree.curr])
                       /\ search' = NoSearch
    /\ UNCHANGED <<tests, args, fs, crate_name, calls, plan, project, runners>>

\* One iteration of the shrink loop of runner.run.
Shrink(in) ==
    /\ pc = "shrinking"
    /\ LET t == Attempt(plan[idx + 1].test.path, plan[idx + 1].name,
                        search.curr, in)
           rep == Tried([report EXCEPT !.steady = Steady(report.steady, t)],
                        search.curr, t)
           step == IF Passed(t) THEN complicate(Tree(search))
                   ELSE simplify(Tree(search))
       IN /\ trial' = t
          /\ group' = Counted(group, t)
          /\ IF step.moved
             THEN /\ search' = WithTree(search, step.tree)
                  /\ report' = rep
                  /\ UNCHANGED <<pc, idx, failures, errs>>
             ELSE /\ EntryReturns(RunnerResult(TRUE),
                        [rep EXCEPT !.minimal = step.tree.curr])
                  /\ search' = NoSearch
    /\ UNCHANGED <<tests, args, fs, crate_name, calls, plan, project, runners>>

\* After the loop: panic!("{} of {} tests failed") or a normal return.
RunnerFinish ==
    /\ pc = "loop"
    /\ idx = Len(plan)
    /\ pc' = IF Raise(failures, project.name) THEN "failed" ELSE "passed"
    /\ UNCHANGED <<tests, args, fs, crate_name, calls, plan, project, idx,
                   failures, search,
                   trial, report, errs, group, runners>>

Next ==
    \/ \E p \in PathChoices, d \in DurationChoices : Available(p, d)
    \/ \E p \in PathChoices, n \in 1..MaxRunCount, m \in SurgeChoices :
          Chaotic(p, n, m)
    \/ \E ok \in BOOLEAN : RunnerRun(ok)
    \/ EntryError
    \/ \E in \in TrialInputs : TestRunFixed(in)
    \/ TestRunSearch
    \/ \E v \in 0..UsizeMax, in \in TrialInputs : Sample(v, in)
    \/ \E in \in TrialInputs : Shrink(in)
    \/ RunnerFinish

Spec == Init /\ [][Next]_vars

\* The harness is one thread: while a step is possible, every build and
\* every target process returning, the next step is eventually taken.
LiveSpec == Spec /\ WF_vars(Next)

\* ------------------------------------------------------------ properties
\* The entry that finished last is plan[idx] (1-based) once report.done.
Finished == idx >= 1 /\ report.done

Aborted == pc \in {"unwrap_open", "unwrap_none", "empty_range"}

Ended == pc \in {"passed", "failed"}

\* C1: every Available entry is judged against its own configured duration
\* D: with build and run successful, elapsed >= D passes and elapsed < D
\* fails with an availability error reporting expected = D, found = elapsed.
C1_OwnDuration ==
    (/\ Finished
     /\ report.branch = "fixed"
     /\ plan[idx].test.expected = "Available"
     /\ trial.check = "Ok")
    => LET D == plan[idx].test.duration[1]
       IN IF trial.elapsed >= D THEN report.res = "Ok"
          ELSE report.res = "AvailabilityLow" /\ trial.duration = D

\* C2: every entry is executed in the mode it was declared with, whatever
\* precedes it: an Available entry once in the fixed-duration branch, a
\* Chaotic entry by the search with its own max_surge as the domain.
C2_DeclaredMode ==
    (Finished /\ plan[idx].error = None)
    => LET t == plan[idx].test
       IN /\ t.expected = "Available" => report.branch = "fixed"
          /\ t.expected = "Chaotic" =>
                report.branch = "search" /\ report.max_surge = t.max_surge

\* C3: a Chaotic entry is reported as passed only if every sample drawn
\* for it built, exited zero and ran at least as long as the sample asked;
\* an entry the search ran passes exactly when all Cases samples did.
C3_PassOnlyIfAllSamplesPass ==
    (Finished /\ plan[idx].error = None
              /\ plan[idx].test.expected = "Chaotic")
    => /\ report.res = "Ok" => ~report.bad
       /\ report.branch = "search" =>
             (report.res = "Ok" <=> (~report.bad /\ report.drawn = Cases))

C3_Witness ==
    /\ Finished
    /\ plan[idx].error = None
    /\ plan[idx].test.expected = "Chaotic"
    /\ report.branch = "search"
    /\ report.drawn = Cases
    /\ report.res = "Ok"

\* The attempts of the search that just finished all built, exited zero
\* and took S ms: the artifact fails exactly when asked for more than S.
SteadySearch ==
    /\ Finished
    /\ report.branch = "search"
    /\ report.steady >= 0

\* C4 as stated: with domain [0, B) and an artifact that fails exactly when
\* the required duration exceeds S, B > S makes every search fail with a
\* minimal counterexample within one unit of S, and B <= S makes it pass.
C4_AlwaysFound ==
    (/\ SteadySearch
     /\ plan[idx].test.expected = "Chaotic"
     /\ plan[idx].test.max_surge = report.max_surge)
    => LET B == report.max_surge
           S == report.steady
       IN IF B > S
          THEN /\ report.res # "Ok"
               /\ report.minimal \in (S - 1)..(S + 1)
          ELSE report.res = "Ok"

\* C4 as amended: a search over [0, B) fails exactly when some drawn sample
\* exceeds S, and then its minimal counterexample is S + 1; when no drawn
\* sample exceeds S, as always when B <= S + 1, it passes.
C4_FoundWhenSampled ==
    SteadySearch
    => LET B == report.max_surge
           S == report.steady
       IN /\ report.res # "Ok" <=> report.top > S
          /\ report.res # "Ok" => report.minimal = S + 1
          /\ B <= S + 1 => report.res = "Ok"

C4_Witness ==
    /\ SteadySearch
    /\ report.res # "Ok"
    /\ report.minimal = report.steady + 1
    /\ report.first > report.minimal

\* One Runs::chaotic call on a plain path, nothing filtered out.
OneChaoticCall ==
    /\ calls = 1
    /\ Len(tests) >= 1
    /\ tests[1].expected = "Chaotic"
    /\ Len(plan) = Len(tests)
    /\ \A i \in 1..Len(plan) : plan[i].test = tests[i] /\ plan[i].error = None

\* C5: for one declaration chaotic(path, runCount, maxSurge) whose artifact
\* never fails, the attempts made for it number exactly runCount.
C5_RunCountSamples ==
    (Ended /\ OneChaoticCall /\ group.clean) => group.execs = Len(tests)

\* C6: the random source is seeded once per harness invocation, not per
\* entry, so that one seed determines every sample sequence of the run:
\* whenever a sample is drawn, the generator in use is the only one the
\* invocation has constructed.
C6_SeededOnce == pc = "sampling" => runners <= 1

\* C7: the classification of an attempt follows the precedence build, run,
\* availability: a failed build is BuildFailed, a failed run RunFailed, and
\* low availability only a clean build and exit that ran too short.
C7_Precedence ==
    /\ trial.check = "CargoFail" => trial.res = "CargoFail"
    /\ trial.check = "RunFailed" => trial.res = "RunFailed"
    /\ trial.res = "AvailabilityLow" => trial.check = "Ok"

\* C8: the elapsed time compared with the required duration excludes the
\* build: for build time b and run time r the compared value is r.
C8_RunTimeOnly == trial.ran => trial.elapsed = trial.r

\* C9: when all N entries have been processed with K of them failing, the
\* failure count is K and the failure is raised iff K > 0 outside the
\* self-test guard; under the guard nothing is raised.
C9_Tally ==
    Ended
    => /\ idx = Len(plan)
       /\ failures = errs
       /\ pc = "failed" <=> (errs > 0 /\ crate_name # "kaos")

C9_Witness ==
    /\ pc = "passed"
    /\ Len(plan) >= 2
    /\ errs >= 1
    /\ crate_name = "kaos"

\* C10: once preparation has succeeded no per-entry error, a missing
\* target file included, aborts the run before the last entry is processed.
C10_NoAbortOnMissingFile == pc # "unwrap_open"

\* C11: entries are executed one at a time and in expansion order: the
\* plan keeps the entries in the order of their expansion names (filtering
\* preserves the relative order), the loop advances by one entry at a time,
\* every build/run attempt is made for the entry the loop stands at, and the
\* binary attempted never goes back to an earlier entry.
C11_InExpansionOrder ==
    /\ [](\A i, j \in 1..Len(plan) :
            i < j => LexLess(plan[i].name, plan[j].name))
    /\ [][/\ idx' \in {idx, idx + 1}
          /\ trial' # trial =>
                /\ idx < Len(plan)
                /\ plan' = plan
                /\ trial'.name = plan[idx + 1].name
                /\ \/ trial.name = trial'.name
                   \/ LexLess(trial.name, trial'.name)]_vars

C11_Witness ==
    /\ Finished
    /\ idx >= 2
    /\ Filters(args) # {}
    /\ plan[idx].error = None
    /\ plan[idx - 1].error = None
    /\ trial.name = plan[idx].name
    /\ plan[idx].name # bin_name(idx - 1)

\* A spec whose path holds a wildcard that resolved.
Resolved(test) == Contains(test.path, <<Star>>) /\ ~PatternError(test.path)

\* The files a resolved wildcard spec stands for.
Matches(test, files) == {f \in files : GlobMatch(test.path, f)}

\* Number of entries spec k contributes.
Yield(ts, k, files) ==
    IF Resolved(ts[k]) THEN Cardinality(Matches(ts[k], files)) ELSE 1

RECURSIVE Offset(_, _, _)
\* Number of entries the specs before spec k contribute.
Offset(ts, k, files) ==
    IF k <= 1 THEN 0
    ELSE Offset(ts, k - 1, files) + Yield(ts, k - 1, files)

\* C12: the expansion is the concatenation, in declaration order, of each
\* spec's expansion: a spec without wildcard yields one entry with its path
\* and mode, a resolved wildcard spec one entry per matching file in
\* lexicographic order, each with the spec's duration, max_surge and mode;
\* the entry at position i carries the zero-padded number i as its name,
\* so the names of one run are pairwise distinct.
C12_Expansion ==
    LET e == expand_globs(tests, fs)
        n == Len(tests)
        seg(k) == (Offset(tests, k, fs) + 1)..Offset(tests, k + 1, fs)
    IN /\ Len(e) = Offset(tests, n + 1, fs)
       /\ \A k \in 1..n :
             /\ \A i \in seg(k) :
                   /\ e[i].test.duration = tests[k].duration
                   /\ e[i].test.max_surge = tests[k].max_surge
                   /\ e[i].test.expected = tests[k].expected
             /\ ~Contains(tests[k].path, <<Star>>) =>
                   \A i \in seg(k) :
                      e[i].test = tests[k] /\ e[i].error = None
             /\ Resolved(tests[k]) =>
                   /\ {e[i].test.path : i \in seg(k)} = Matches(tests[k], fs)
                   /\ \A i \in seg(k) : e[i].error = None
                   /\ \A i \in seg(k), j \in seg(k) :
                         i < j => LexLess(e[i].test.path, e[j].test.path)
       /\ \A i \in 1..Len(e) : e[i].name = bin_name(i - 1)
       /\ \A i \in 1..Len(e), j \in 1..Len(e) :
             i # j => e[i].name # e[j].name

C12_Witness ==
    /\ pc = "loop"
    /\ Filters(args) = {}
    /\ Len(tests) = 2
    /\ tests[1].path = <<Star>>
    /\ tests[2].path = FileB
    /\ Len(plan) = 3
    /\ plan[3].name = bin_name(2)
    /\ plan[3].test = tests[2]

\* The entry that just finished is the only one of the plan that is not a
\* placeholder.
OnlyRealEntry ==
    /\ Finished
    /\ plan[idx].error = None
    /\ \A i \in 1..Len(plan) : i # idx => plan[i].error # None

\* C13: a placeholder is counted as one failed entry without a build or a
\* run being made for its binary, and the other entries come out as if the
\* placeholder were absent: an entry whose only companions are placeholders
\* is handled as prepare would have it handled alone.
C13_PlaceholderInert ==
    /\ (Finished /\ report.branch = "error") =>
          /\ report.res # "Ok"
          /\ errs >= 1
          /\ trial.name # plan[idx].name
    /\ OnlyRealEntry =>
          LET alone == prepare(<<plan[idx]>>, crate_name)
          IN IF alone.surges[1] # NOT0
             THEN /\ report.branch = "search"
                  /\ report.max_surge = alone.surges[1]
             ELSE /\ report.branch = "fixed"
                  /\ Some(report.required) = alone.durations[1]

\* Argument j is a filter token: "kaos=" followed by at least one character.
FilterToken(j) == StartsWith(args[j], PREFIX) /\ Len(args[j]) > Len(PREFIX)

\* The positions of the expansion e whose path contains a filter substring.
Retained(e) ==
    {i \in 1..Len(e) :
        \E j \in 1..Len(args) :
           /\ FilterToken(j)
           /\ Contains(e[i].test.path,
                       SubSeq(args[j], Len(PREFIX) + 1, Len(args[j])))}

\* C14: without a filter token among the arguments the plan is the
\* expansion unchanged; otherwise it is exactly the entries whose path
\* contains at least one filter substring, in their original order; and
\* filtering the plan again with the same arguments gives the plan.
C14_Filter ==
    pc # "declare" =>
       LET e == expand_globs(tests, fs)
           K == Retained(e)
           kth(k) == CHOOSE i \in K : Cardinality({j \in K : j < i}) = k - 1
       IN /\ (\A j \in 1..Len(args) : ~FilterToken(j)) => plan = e
          /\ (\E j \in 1..Len(args) : FilterToken(j)) =>
                /\ Len(plan) = Cardinality(K)
                /\ \A k \in 1..Len(plan) : plan[k] = e[kth(k)]
          /\ filter(plan, args) = plan

C14_Witness ==
    /\ pc = "loop"
    /\ Cardinality(Filters(args)) = 2
    /\ Len(args) = 3
    /\ Len(plan) = 2
    /\ Len(expand_globs(tests, fs)) = 4
    /\ plan[2].name = bin_name(3)

\* C15: within one attempt the target is run only after cargo build has
\* returned success for that attempt: an outcome of the run (clean exit,
\* failed exit, spawn error) is only ever seen after a successful build, and
\* after a failed build the attempt ends as CargoFail with no run.
C15_RunAfterBuild ==
    /\ trial.ran => (trial.built /\ trial.success)
    /\ trial.check \in {"Ok", "RunFailed", "Io"} =>
          (trial.built /\ trial.success /\ trial.ran)
    /\ (trial.built /\ ~trial.success) =>
          (~trial.ran /\ trial.check = "CargoFail" /\ trial.elapsed = trial.b)

C15_Witness ==
    /\ Finished
    /\ trial.name = plan[idx].name
    /\ trial.built
    /\ ~trial.success
    /\ ~trial.ran
    /\ trial.check = "CargoFail"

\* The usize that was cast to the isize i.
AsUsize(i) == IF i < 0 THEN i + 2 ^ WordBits ELSE i

\* C16: every required duration s handed to an attempt for an entry
\* declared Chaotic satisfies 0 <= s < max_surge for the max_surge that
\* entry was declared with.
C16_WithinDeclaredSurge ==
    \A i \in 1..Len(plan) :
       (/\ plan[i].error = None
        /\ plan[i].test.expected = "Chaotic"
        /\ trial.name = plan[i].name)
       => /\ 0 <= trial.duration
          /\ trial.duration < AsUsize(plan[i].test.max_surge)

\* The search that just finished found a failing sample.
FoundCounterexample ==
    /\ Finished
    /\ report.branch = "search"
    /\ report.first # -1

\* C17: when the search of an entry finds a failing sample s0 the entry
\* fails and the reported minimal value m satisfies m <= s0, m is a value
\* the closure failed for, and no smaller value that was tried failed; when
\* no attempt of the entry passed, m = 0.
C17_MinimalFailing ==
    FoundCounterexample
    => /\ report.res # "Ok"
       /\ report.minimal <= report.first
       /\ report.minimal = report.lowfail
       /\ ~report.anypass => report.minimal = 0

C17_Witness ==
    /\ FoundCounterexample
    /\ report.anypass
    /\ report.minimal >= 1
    /\ report.minimal < report.first
    /\ report.steady = -2

C17_WitnessAlwaysFailing ==
    /\ FoundCounterexample
    /\ ~report.anypass
    /\ report.first >= 2
    /\ report.minimal = 0

\* C18: the search of one entry goes Sampling -> (AllPassed |
\* FoundCounterexample) -> Shrinking -> MinimalFound: sampling starts from
\* the loop with nothing drawn; it goes on only after a sample that passed;
\* shrinking is entered only from sampling, by a failing sample; while
\* shrinking no further sample is drawn and sampling is not resumed; the
\* entry returns Ok only from sampling, with no failing sample; and when
\* the search ends the loop moves on to the next entry.
C18_SearchPhases ==
    [][/\ (pc' = "sampling" /\ pc # "sampling") =>
             (pc = "loop" /\ report'.drawn = 0 /\ report'.first = -1)
       /\ (pc = "sampling" /\ pc' = "sampling") =>
             (/\ trial'.res = "Ok"
              /\ report'.first = -1
              /\ report'.drawn = report.drawn + 1)
       /\ (pc' = "shrinking" /\ pc # "shrinking") =>
             (/\ pc = "sampling"
              /\ trial'.res # "Ok"
              /\ report'.first = trial'.duration
              /\ report'.drawn = report.drawn + 1)
       /\ pc = "shrinking" =>
             (/\ pc' \in {"shrinking", "loop"}
              /\ report'.drawn = report.drawn
              /\ report'.first = report.first
              /\ pc' = "loop" => report'.res # "Ok")
       /\ (pc = "sampling" /\ pc' = "loop" /\ report'.res = "Ok") =>
             (trial'.res = "Ok" /\ report'.first = -1 /\ ~report'.bad)
       /\ (pc \in {"sampling", "shrinking"} /\ pc' = "loop") =>
             (idx' = idx + 1 /\ report'.done)]_vars

C18_Witness ==
    /\ pc = "shrinking"
    /\ report.drawn = 2
    /\ report.first = trial.duration
    /\ search.curr < report.first

\* Test::run has handed the current entry to runner.run.
InSearch == pc \in {"sampling", "shrinking", "empty_range"}

\* The search of the entry that finished last ended in AllPassed or
\* MinimalFound.
SearchEnded ==
    /\ pc = "loop"
    /\ report.done
    /\ report.branch = "search"
    /\ (report.res = "Ok" \/ report.minimal >= 0)

\* C19: every build and every target process returning, the search of
\* each entry handed to runner.run eventually reaches AllPassed or
\* MinimalFound, and the run of a prepared plan eventually finishes its
\* loop over the entries.
C19_Terminates ==
    /\ InSearch ~> SearchEnded
    /\ (pc = "loop") ~> Ended

\* prepare has returned a Project.
Prepared == project.name # ""

\* C20: a run whose preparation failed stops there: as long as prepare has
\* not returned a Project the run is not in its loop, no entry has been
\* consumed, no build or run has been attempted and no failure counted.
C20_NothingRunsUnprepared ==
    /\ pc = "prepare_failed" => ~Prepared
    /\ ~Prepared =>
          /\ pc \in {"declare", "prepare_failed"}
          /\ idx = 0
          /\ trial = NoTrial
          /\ report = NoReport
          /\ runners = 0
          /\ failures = 0

C20_Witness ==
    /\ pc = "prepare_failed"
    /\ Len(plan) >= 2
    /\ plan[1].error = None

\* C21: for every plan declared with available and chaotic calls the
\* lookups of Test::run never fail: project.test_idx is a valid index into
\* surges and durations whenever an entry is about to run, the fixed
\* branch never unwraps a None duration, and the range 0..max_surge is
\* never empty when it is sampled.
C21_LookupsNeverFail ==
    /\ (pc = "loop" /\ idx < Len(plan) /\ plan[idx + 1].error = None) =>
          /\ project.test_idx < Len(project.surges)
          /\ project.test_idx < Len(project.durations)
    /\ pc # "unwrap_none"
    /\ pc # "empty_range"

\* The index part of C21 alone.
TestIdxInRange ==
    (pc = "loop" /\ idx < Len(plan)) =>
       project.test_idx < Len(project.surges)

\* The unwrap part of C21 alone.
DurationPresent == pc # "unwrap_none"

\* The range part of C21 alone.
RangeNotEmpty == pc # "empty_range"

====
